---- MODULE Spec2Model ----
(***************************************************************************)
(* Target construction of src/utils.py: create_targets (bootstrap builder) *)
(* and create_targets_naive (flow-matching only).                          *)
(*                                                                         *)
(* Representation.  A tensor with a leading batch axis is a sequence, one  *)
(* entry per sample.  An image-shaped entry is a record [img, val]: img is *)
(* the index (0-based) of the input image it was computed from, val one    *)
(* pixel of it (every operation of the code on images is element-wise).    *)
(* Reals are held exactly as integers in fixed point:                      *)
(*   times t, dt, dt_bootstrap   in units of 1/DENOISE_TIMESTEPS           *)
(*   noisy samples x_t, x_t2     in units of 1/XScale                      *)
(*   velocities v_t, v_target    in units of 1/VScale                      *)
(* Floating-point rounding is not modelled.                                *)
(***************************************************************************)
EXTENDS Integers, Sequences, FiniteSets, TLC

\* ---------------------------------------------------------------- bounds
MaxN == 120
MaxSeed == 1
MaxLabel == 1

\* ------------------------------------------------- module-level constants
BOOTSTRAP_EVERY == 8
DENOISE_TIMESTEPS == 128
\* CLASS_DROPOUT_PROB = 1.0, held in percent
CLASS_DROPOUT_PROB == 100
NUM_CLASSES == 1
FORCE_T == -1
FORCE_DT == -1

\* the dropout probability is a tunable: the shipped value and two others
DropoutProbs == {0, 50, CLASS_DROPOUT_PROB}

\* 1/EpsInv is the 1e-5 of the interpolation (1 - (1 - 1e-5) * t)
EpsInv == 100000
XScale == DENOISE_TIMESTEPS * EpsInv
VScale == 2 * EpsInv
\* the bound of torch.clip(., -4, 4)
ClipBound == 4

\* ------------------------------------------------------- tensor helpers
RECURSIVE Log2(_)
\* int(math.log2(n)) for n >= 1
Log2(n) == IF n <= 1 THEN 0 ELSE 1 + Log2(n \div 2)

RECURSIVE Pow2(_)
\* int(2 ** d): 0 for a negative exponent (the fraction truncates)
Pow2(d) == IF d < 0 THEN 0 ELSE IF d = 0 THEN 1 ELSE 2 * Pow2(d - 1)

\* torch.arange(n)
Arange(n) == [i \in 1..n |-> i - 1]

\* torch.zeros(n); a negative size raises, which no call here produces
Zeros(n) == [i \in 1..n |-> 0]

\* torch.ones(n) * c
Full(n, c) == [i \in 1..n |-> c]

Repeat(v, r) == [k \in 1..r |-> v]

\* faulty variant: Tensor.repeat, the whole sequence r times over
RepeatInterleave_Tiled(s, r) ==
    [k \in 1..(Len(s) * r) |-> s[((k - 1) % Len(s)) + 1]]

RECURSIVE RepeatInterleave(_, _)
\* torch.repeat_interleave(s, r): every element r times, in order
RepeatInterleave(s, r) ==
    IF s = <<>> THEN <<>>
    ELSE Repeat(Head(s), r) \o RepeatInterleave(Tail(s), r)

\* torch.cat([a, b])
Cat(a, b) == a \o b

\* torch.where(force != -1, force, value), element-wise
WhereForced(force, value) ==
    [i \in 1..Len(value) |-> IF force[i] # -1 THEN force[i] ELSE value[i]]

\* tensor[:n]
Take(s, n) == SubSeq(s, 1, IF n < Len(s) THEN n ELSE Len(s))

\* torch.cat(list) raises RuntimeError on an empty list of tensors
CatListRaises(tensors) == Len(tensors) = 0

\* torch.randint(low=0, high) raises unless high > 0
RandintRaises(high) == high <= 0

\* a real num/den in units of 1/DENOISE_TIMESTEPS
TimeFix(num, den) == (num * DENOISE_TIMESTEPS) \div den

\* torch.clip(v, -bound, bound)
Clip(v, bound) == IF v < -bound THEN -bound ELSE IF v > bound THEN bound ELSE v

\* ------------------------------------------------- the random generator
\* The ambient generator is counter based: draw number ctr under a seed.
Mix(seed, ctr) == (((ctr + 1) * (ctr + 3 + 2 * seed)) * 1237 + seed * 7919 + ctr * 31) % 1009

\* faulty variant: the upper bound is included
Randint_Inclusive(seed, ctr, high) == Mix(seed, ctr) % (high + 1)

\* torch.randint(low=0, high, size=(1,)): 0 <= k < high
Randint(seed, ctr, high) == Mix(seed, ctr) % high

\* one standard-normal draw, on a coarse grid
Randn(seed, ctr) == (Mix(seed, ctr) % 7) - 3

\* faulty variant: the comparison admits the sample equal to p
Bernoulli_Inclusive(seed, ctr, p) == IF Mix(seed, ctr) % 100 <= p THEN 1 ELSE 0

\* torch.bernoulli of probability p percent: 1 with probability p
Bernoulli(seed, ctr, p) == IF Mix(seed, ctr) % 100 < p THEN 1 ELSE 0

\* ------------------------------------------------------------ the inputs
\* pixel of input image i (0-based)
Pixel(i) == ((i * 3) % 7) - 3

ImageBatch(n) == [i \in 1..n |-> [img |-> i - 1, val |-> Pixel(i - 1)]]

\* label batches: label i is i modulo a period, period 1 being all zeros
LabelBatch(n, period) == [i \in 1..n |-> (i - 1) % period]

\* ------------------------------------------------------------- the model
ModelKinds == {"zeros", "steep", "mixed"}

\* the velocity a stand-in network returns for one sample
ModelOutput(kind, x, tm, d, l) ==
    CASE kind = "zeros" -> 0
      [] kind = "steep" -> IF x >= 0 THEN 9 ELSE -9
      [] OTHER -> (((x \div XScale) + tm + d + l) % 7) - 3

\* model(x, t, dt_base, labels) over a batch
ModelCall(kind, x, tm, d, l) ==
    [i \in 1..Len(x) |->
        [img |-> x[i].img, val |-> ModelOutput(kind, x[i].val, tm[i], d[i], l[i])]]

\* ----------------------------------------------------- step-size schedule
\* faulty variant: the exponents ascend, arange is not subtracted from sections - 1
BootstrapDtBase_Ascending(bsz, sections) ==
    LET groups == RepeatInterleave(Arange(sections), bsz \div sections)
        padded == Cat(groups, Zeros(bsz - Len(groups)))
    IN  WhereForced(Full(bsz, FORCE_DT), padded)

\* lines 37-46: decreasing exponents in groups, zero padded, force override
BootstrapDtBase(bsz, sections) ==
    LET groups == RepeatInterleave([i \in 1..sections |-> sections - 1 - Arange(sections)[i]],
                                   bsz \div sections)
        padded == Cat(groups, Zeros(bsz - Len(groups)))
    IN  WhereForced(Full(bsz, FORCE_DT), padded)

\* faulty variant: the flow-matching exponent is one short
FlowDtBase_OffByOne(n) == Full(n, Log2(DENOISE_TIMESTEPS) - 1)

\* lines 128-129: the flow-matching exponent of every sample
FlowDtBase(n) == Full(n, Log2(DENOISE_TIMESTEPS))

\* -------------------------------------------------- flow-matching pieces
\* lines 79 and 125: (1 - (1 - 1e-5) * t) * x_0 + t * x_1, in units of 1/XScale
Interpolate(tm, x0, x1) == (XScale - (EpsInv - 1) * tm) * x0 + EpsInv * tm * x1

\* line 126: x_1 - (1 - 1e-5) * x_0, in units of 1/VScale
FlowVelocity(x0, x1) == 2 * (EpsInv * x1 - (EpsInv - 1) * x0)

\* faulty variant: the branches of torch.where exchanged
DropLabels_Swapped(lab, sd, c0, p) ==
    [i \in 1..Len(lab) |->
        IF Bernoulli(sd, c0 + i - 1, p) = 1 THEN lab[i] ELSE NUM_CLASSES]

\* lines 106-107: bernoulli mask, then where(mask, NUM_CLASSES, labels)
DropLabels(lab, sd, c0, p) ==
    [i \in 1..Len(lab) |->
        IF Bernoulli(sd, c0 + i - 1, p) = 1 THEN NUM_CLASSES ELSE lab[i]]

\* lines 110-116: randint(0, DENOISE_TIMESTEPS) / DENOISE_TIMESTEPS, force override
FlowTimes(n, sd, c0) ==
    WhereForced(Full(n, FORCE_T),
                [i \in 1..n |-> TimeFix(Randint(sd, c0 + i - 1, DENOISE_TIMESTEPS),
                                        DENOISE_TIMESTEPS)])

\* torch.randn_like(x): one draw per entry
RandnLike(x, sd, c0) == [i \in 1..Len(x) |-> Randn(sd, c0 + i - 1)]

\* faulty variant: the half step is not clipped
HalfStep_Unclipped(x, dtb, v) == x + dtb * EpsInv * v

\* lines 88-89: clip(x_t + dt_bootstrap * v_b1, -4, 4), in units of 1/XScale
HalfStep(x, dtb, v) == Clip(x + dtb * EpsInv * v, ClipBound * XScale)

\* lines 94-96: clip((v_b1 + v_b2) / 2, -4, 4), in units of 1/VScale
BootstrapTarget(v1, v2) == Clip((v1 + v2) * EpsInv, ClipBound * VScale)

\* faulty variant: the last, not the first, bst_size_data flow entries are kept
MergeParts_KeepLast(bstPart, flowPart, bst_size_data) ==
    Cat(bstPart, SubSeq(flowPart, Len(flowPart) - bst_size_data + 1, Len(flowPart)))

\* faulty variant: the flow part is not truncated
MergeParts_NoTruncate(bstPart, flowPart, bst_size_data) == Cat(bstPart, flowPart)

\* lines 138-143: torch.cat([bootstrap part, flow part[:bst_size_data]])
MergeParts(bstPart, flowPart, bst_size_data) == Cat(bstPart, Take(flowPart, bst_size_data))

\* ------------------------------------------------------------------ state
\* Every variable but pc, fn, error, calls, seed and ctr is a name of the source:
\*   pc, fn, error     where the call stands, which function, what it raised
\*   model_mode        the flag set by model.eval()            (lines 24, 149)
\*   model_kind, calls the network passed in and its invocations (lines 85, 92)
\*   seed, ctr         the ambient random generator
\*   the rest          the locals of create_targets / create_targets_naive
VARIABLES
    pc, fn, error,
    model_mode, model_kind, calls,
    class_dropout_prob, seed, ctr,
    images, labels, current_batch_size,
    bootstrap_batch_size, dt_base, dt_bootstrap, dt_base_bootstrap, dt_sections,
    t, x_0, x_t, bst_labels, v_b1, v_t, labels_dropped,
    bst_v, bst_dt, bst_t, bst_xt, bst_l

model == <<model_mode, model_kind, calls>>
config == <<class_dropout_prob, seed>>
inputs == <<images, labels, current_batch_size>>
sched == <<bootstrap_batch_size, dt_bootstrap, dt_base_bootstrap, dt_sections>>
bst == <<bst_labels, bst_v, bst_dt, bst_t, bst_xt, bst_l>>
vars == <<pc, fn, error, model, config, ctr, inputs, sched, dt_base,
          t, x_0, x_t, v_b1, v_t, labels_dropped, bst>>

Init ==
    /\ pc = "idle"
    /\ fn = "none"
    /\ error = "none"
    /\ model_mode \in {"train", "eval"}
    /\ model_kind \in ModelKinds
    /\ calls = <<>>
    /\ class_dropout_prob \in DropoutProbs
    /\ seed \in 0..MaxSeed
    /\ ctr = 0
    /\ images = <<>> /\ labels = <<>> /\ current_batch_size = 0
    /\ bootstrap_batch_size = 0
    /\ dt_base = <<>> /\ dt_bootstrap = <<>> /\ dt_base_bootstrap = <<>>
    /\ dt_sections = <<>>
    /\ t = <<>> /\ x_0 = <<>> /\ x_t = <<>> /\ v_b1 = <<>> /\ v_t = <<>> /\ labels_dropped = <<>>
    /\ bst_labels = <<>>
    /\ bst_v = <<>> /\ bst_dt = <<>> /\ bst_t = <<>> /\ bst_xt = <<>> /\ bst_l = <<>>

\* create_targets, lines 22-26: the call, model.eval(), the batch size
CallCreateTargets ==
    /\ pc = "idle"
    /\ \E n \in 0..MaxN, period \in 1..(MaxLabel + 1) :
        /\ images' = ImageBatch(n)
        /\ labels' = LabelBatch(n, period)
        /\ current_batch_size' = n
    /\ fn' = "create_targets"
    /\ model_mode' = "eval"
    /\ pc' = "schedule"
    /\ UNCHANGED <<error, model_kind, calls, config, ctr, sched, dt_base,
                   t, x_0, x_t, v_b1, v_t, labels_dropped, bst>>

\* create_targets, lines 32-55: the step sizes of the bootstrap sub-batch
Schedule ==
    /\ pc = "schedule"
    /\ LET bsz == current_batch_size \div BOOTSTRAP_EVERY
           log2_sections == Log2(DENOISE_TIMESTEPS)
           dt(i) == TimeFix(1, Pow2(dt_base'[i]))
       IN  /\ bootstrap_batch_size' = bsz
           /\ dt_base' = BootstrapDtBase(bsz, log2_sections)
           /\ dt_base_bootstrap' = [i \in 1..Len(dt_base') |-> dt_base'[i] + 1]
           /\ dt_bootstrap' = [i \in 1..Len(dt_base') |-> dt(i) \div 2]
           /\ dt_sections' = [i \in 1..Len(dt_base') |-> Pow2(dt_base'[i])]
    /\ pc' = "sample_t"
    /\ UNCHANGED <<fn, error, model, config, ctr, inputs,
                   t, x_0, x_t, v_b1, v_t, labels_dropped, bst>>

\* create_targets, lines 59-69: one randint per bootstrap sample, normalised
SampleTimesteps ==
    /\ pc = "sample_t"
    /\ LET n == Len(dt_sections)
           draws == [i \in 1..n |-> Randint(seed, ctr + i - 1, dt_sections[i])]
       IN  IF (\E i \in 1..n : RandintRaises(dt_sections[i])) \/ CatListRaises(draws)
           THEN /\ pc' = "raised"
                /\ error' = "RuntimeError"
                /\ UNCHANGED <<t, ctr>>
           ELSE /\ t' = WhereForced(Full(bootstrap_batch_size, FORCE_T),
                                    [i \in 1..n |-> TimeFix(draws[i], dt_sections[i])])
                /\ ctr' = ctr + n
                /\ pc' = "first_call"
                /\ UNCHANGED error
    /\ UNCHANGED <<fn, model, config, inputs, sched, dt_base,
                   x_0, x_t, v_b1, v_t, labels_dropped, bst>>

\* create_targets, lines 75-85: noisy bootstrap samples, first inference
FirstCall ==
    /\ pc = "first_call"
    /\ LET x_1 == Take(images, bootstrap_batch_size)
       IN  /\ x_0' = RandnLike(x_1, seed, ctr)
           /\ x_t' = [i \in 1..Len(x_1) |->
                        [img |-> x_1[i].img, val |-> Interpolate(t[i], x_0'[i], x_1[i].val)]]
           /\ bst_labels' = Take(labels, bootstrap_batch_size)
           /\ v_b1' = ModelCall(model_kind, x_t', t, dt_base_bootstrap, bst_labels')
           /\ calls' = Append(calls, [x |-> x_t', t |-> t, dt_base |-> dt_base_bootstrap,
                                      labels |-> bst_labels', mode |-> model_mode])
           /\ ctr' = ctr + Len(x_1)
    /\ pc' = "second_call"
    /\ UNCHANGED <<fn, error, model_mode, model_kind, config, inputs, sched, dt_base,
                   t, v_t, labels_dropped, bst_v, bst_dt, bst_t, bst_xt, bst_l>>

\* create_targets, lines 87-102: half step, second inference, averaged target
SecondCall ==
    /\ pc = "second_call"
    /\ LET n == Len(x_t)
           t2 == [i \in 1..n |-> t[i] + dt_bootstrap[i]]
           x_t2 == [i \in 1..n |->
                      [img |-> x_t[i].img,
                       val |-> HalfStep(x_t[i].val, dt_bootstrap[i], v_b1[i].val)]]
           v_b2 == ModelCall(model_kind, x_t2, t2, dt_base_bootstrap, bst_labels)
           v_target == [i \in 1..n |->
                          [img |-> v_b1[i].img,
                           val |-> BootstrapTarget(v_b1[i].val, v_b2[i].val)]]
       IN  /\ calls' = Append(calls, [x |-> x_t2, t |-> t2, dt_base |-> dt_base_bootstrap,
                                      labels |-> bst_labels, mode |-> model_mode])
           /\ bst_v' = v_target
           /\ bst_dt' = dt_base
           /\ bst_t' = t
           /\ bst_xt' = x_t
           /\ bst_l' = bst_labels
    /\ pc' = "flow"
    /\ UNCHANGED <<fn, error, model_mode, model_kind, config, ctr, inputs, sched, dt_base,
                   t, x_0, x_t, bst_labels, v_b1, v_t, labels_dropped>>

\* create_targets, lines 106-129: the flow-matching batch over all N samples
FlowMatching ==
    /\ pc = "flow"
    /\ LET n == Len(images)
       IN  /\ labels_dropped' = DropLabels(labels, seed, ctr, class_dropout_prob)
           /\ t' = FlowTimes(n, seed, ctr + Len(labels))
           /\ x_0' = RandnLike(images, seed, ctr + Len(labels) + n)
           /\ x_t' = [i \in 1..n |->
                        [img |-> images[i].img,
                         val |-> Interpolate(t'[i], x_0'[i], images[i].val)]]
           /\ v_t' = [i \in 1..n |->
                        [img |-> images[i].img, val |-> FlowVelocity(x_0'[i], images[i].val)]]
           /\ dt_base' = FlowDtBase(n)
           /\ ctr' = ctr + Len(labels) + 2 * n
    /\ pc' = "merge"
    /\ UNCHANGED <<fn, error, model, config, inputs, sched, v_b1, bst>>

\* create_targets, lines 132-145: bootstrap entries, then the first N - B flow entries
Merge ==
    /\ pc = "merge"
    /\ LET bst_size == current_batch_size \div BOOTSTRAP_EVERY
           bst_size_data == current_batch_size - bst_size
       IN  /\ x_t' = MergeParts(bst_xt, x_t, bst_size_data)
           /\ t' = MergeParts(bst_t, t, bst_size_data)
           /\ dt_base' = MergeParts(bst_dt, dt_base, bst_size_data)
           /\ v_t' = MergeParts(bst_v, v_t, bst_size_data)
           /\ labels_dropped' = MergeParts(bst_l, labels_dropped, bst_size_data)
    /\ pc' = "returned"
    /\ UNCHANGED <<fn, error, model, config, ctr, inputs, sched, x_0, v_b1, bst>>

\* create_targets_naive, lines 147-151: the call, model.eval(), the batch size
CallNaive ==
    /\ pc = "idle"
    /\ \E n \in 0..MaxN, period \in 1..(MaxLabel + 1) :
        /\ images' = ImageBatch(n)
        /\ labels' = LabelBatch(n, period)
        /\ current_batch_size' = n
    /\ fn' = "create_targets_naive"
    /\ model_mode' = "eval"
    /\ pc' = "naive_flow"
    /\ UNCHANGED <<error, model_kind, calls, config, ctr, sched, dt_base,
                   t, x_0, x_t, v_b1, v_t, labels_dropped, bst>>

\* create_targets_naive, lines 156-179: flow-matching targets, returned as they are
NaiveFlow ==
    /\ pc = "naive_flow"
    /\ LET n == Len(images)
       IN  /\ labels_dropped' = DropLabels(labels, seed, ctr, class_dropout_prob)
           /\ t' = FlowTimes(n, seed, ctr + Len(labels))
           /\ x_0' = RandnLike(images, seed, ctr + Len(labels) + n)
           /\ x_t' = [i \in 1..n |->
                        [img |-> images[i].img,
                         val |-> Interpolate(t'[i], x_0'[i], images[i].val)]]
           /\ v_t' = [i \in 1..n |->
                        [img |-> images[i].img, val |-> FlowVelocity(x_0'[i], images[i].val)]]
           /\ dt_base' = FlowDtBase(n)
           /\ ctr' = ctr + Len(labels) + 2 * n
    /\ pc' = "returned"
    /\ UNCHANGED <<fn, error, model, config, inputs, sched, v_b1, bst>>

Next ==
    \/ CallCreateTargets
    \/ Schedule
    \/ SampleTimesteps
    \/ FirstCall
    \/ SecondCall
    \/ FlowMatching
    \/ Merge
    \/ CallNaive
    \/ NaiveFlow

Spec == Init /\ [][Next]_vars

\* ======================================================================
\* Properties
\* ======================================================================

\* C1: for every batch size N >= BOOTSTRAP_EVERY create_targets returns (it
\* does not raise) five sequences of length exactly N, made of B = N div 8
\* bootstrap entries followed by N - B flow-matching entries;
\* create_targets_naive returns five sequences of length exactly N for every N.
C1_OutputLengths ==
    LET N == current_batch_size
        B == N \div BOOTSTRAP_EVERY
    IN  /\ (fn = "create_targets" /\ N >= BOOTSTRAP_EVERY) => pc # "raised"
        /\ fn = "create_targets_naive" => pc # "raised"
        /\ (pc = "returned" /\ (fn = "create_targets_naive" \/ N >= BOOTSTRAP_EVERY)) =>
              /\ Len(x_t) = N /\ Len(v_t) = N /\ Len(t) = N
              /\ Len(dt_base) = N /\ Len(labels_dropped) = N
        /\ (pc = "returned" /\ fn = "create_targets" /\ N >= BOOTSTRAP_EVERY) =>
              /\ Len(bst_xt) = B /\ Len(bst_v) = B /\ Len(bst_t) = B
              /\ Len(bst_dt) = B /\ Len(bst_l) = B
              /\ SubSeq(x_t, 1, B) = bst_xt /\ SubSeq(v_t, 1, B) = bst_v
              /\ SubSeq(t, 1, B) = bst_t /\ SubSeq(dt_base, 1, B) = bst_dt
              /\ SubSeq(labels_dropped, 1, B) = bst_l

\* a batch of 100 gives 12 bootstrap entries and 88 flow-matching entries
C1_Witness ==
    /\ pc = "returned" /\ fn = "create_targets"
    /\ current_batch_size = 100 /\ Len(bst_xt) = 12 /\ Len(x_t) = 100

\* C2 as stated: with CLASS_DROPOUT_PROB = 1.0 the labels_dropped returned by
\* either builder is NUM_CLASSES at every index.
C2_AllDropped ==
    (pc = "returned" /\ class_dropout_prob = 100) =>
        \A i \in 1..Len(labels_dropped) : labels_dropped[i] = NUM_CLASSES

\* C2 amended: with CLASS_DROPOUT_PROB = 1.0, create_targets_naive returns
\* NUM_CLASSES at every index; create_targets returns NUM_CLASSES at every
\* flow-matching index B..N-1 and the input label i, undropped, at every
\* bootstrap index i < B.
C2_DroppedOutsideBootstrap ==
    LET N == current_batch_size
        B == N \div BOOTSTRAP_EVERY
    IN  (pc = "returned" /\ class_dropout_prob = 100) =>
            /\ Len(labels_dropped) = N
            /\ fn = "create_targets_naive" =>
                  \A i \in 1..N : labels_dropped[i] = NUM_CLASSES
            /\ fn = "create_targets" =>
                  \A i \in 1..N :
                      labels_dropped[i] = IF i <= B THEN labels[i] ELSE NUM_CLASSES

\* full dropout, and still the first output label is the input label 0
C2_Witness ==
    /\ pc = "returned" /\ fn = "create_targets" /\ class_dropout_prob = 100
    /\ current_batch_size = 64
    /\ labels[1] = 0 /\ labels_dropped[1] = 0
    /\ labels_dropped[9] = NUM_CLASSES /\ labels_dropped[64] = NUM_CLASSES

\* C3 as stated: with CLASS_DROPOUT_PROB = 0.0 the labels_dropped returned by
\* either builder equals the input labels, index by index.
C3_LabelsUnchanged ==
    (pc = "returned" /\ class_dropout_prob = 0) => labels_dropped = labels

\* C3 amended: with CLASS_DROPOUT_PROB = 0.0, create_targets_naive returns the
\* input labels index by index; create_targets returns the input labels
\* 0..B-1 followed by the input labels 0..N-B-1, so output index i >= B holds
\* input label i - B.
C3_LabelsUndroppedShifted ==
    LET N == current_batch_size
        B == N \div BOOTSTRAP_EVERY
    IN  (pc = "returned" /\ class_dropout_prob = 0) =>
            /\ Len(labels_dropped) = N
            /\ fn = "create_targets_naive" => labels_dropped = labels
            /\ fn = "create_targets" =>
                  \A i \in 1..N :
                      labels_dropped[i] = IF i <= B THEN labels[i] ELSE labels[i - B]

\* no dropout, one bootstrap entry: output label 1 is input label 0, not 1
C3_Witness ==
    /\ pc = "returned" /\ fn = "create_targets" /\ class_dropout_prob = 0
    /\ current_batch_size = 8
    /\ labels[2] = 1 /\ labels_dropped[2] = 0 /\ labels_dropped[3] = 1

\* C4: with an empty bootstrap sub-batch (N < BOOTSTRAP_EVERY) create_targets
\* does not fail; the timestep sampling yields an empty sequence, the
\* bootstrap segment is empty and N flow-matching entries are returned.
C4_EmptyBootstrapReturns ==
    (fn = "create_targets" /\ current_batch_size < BOOTSTRAP_EVERY) =>
        /\ pc # "raised"
        /\ pc \in {"first_call", "second_call"} => t = <<>>
        /\ pc = "returned" =>
              /\ bst_xt = <<>> /\ bst_t = <<>> /\ bst_dt = <<>>
              /\ Len(x_t) = current_batch_size

\* C5 as stated: for N = 64 the bootstrap sub-batch has size 8 and its dt_base
\* values are, in order, [6,6,5,5,4,4,3,2]; create_targets_naive returns
\* dt_base equal to 7 for all 64 samples.
C5_ScheduleOf64 ==
    current_batch_size = 64 =>
        /\ (fn = "create_targets" /\ pc \in {"sample_t", "first_call", "second_call"}) =>
              /\ bootstrap_batch_size = 8
              /\ dt_base = <<6, 6, 5, 5, 4, 4, 3, 2>>
        /\ (fn = "create_targets" /\ pc = "returned") =>
              SubSeq(dt_base, 1, 8) = <<6, 6, 5, 5, 4, 4, 3, 2>>
        /\ (fn = "create_targets_naive" /\ pc = "returned") =>
              dt_base = [i \in 1..64 |-> 7]

\* C5 amended: for N = 64 the bootstrap sub-batch has size 8 and its dt_base
\* values are, in order, [6,5,4,3,2,1,0,0]; create_targets_naive returns
\* dt_base equal to 7 for all 64 samples.
C5_ScheduleOf64Descending ==
    current_batch_size = 64 =>
        /\ (fn = "create_targets" /\ pc \in {"sample_t", "first_call", "second_call"}) =>
              /\ bootstrap_batch_size = 8
              /\ dt_base = <<6, 5, 4, 3, 2, 1, 0, 0>>
        /\ (fn = "create_targets" /\ pc = "returned") =>
              SubSeq(dt_base, 1, 8) = <<6, 5, 4, 3, 2, 1, 0, 0>>
        /\ (fn = "create_targets_naive" /\ pc = "returned") =>
              dt_base = [i \in 1..64 |-> 7]

\* the batch of 64 has been scheduled: eight exponents, the last two zero
C5_Witness ==
    /\ fn = "create_targets" /\ pc = "sample_t" /\ current_batch_size = 64
    /\ Len(dt_base) = 8 /\ dt_base[1] = 6 /\ dt_base[7] = 0 /\ dt_base[8] = 0

\* C6: in the output of create_targets, for every N >= BOOTSTRAP_EVERY, dt_base
\* at every bootstrap index i < B lies in 0..L-1 and at every flow-matching
\* index i >= B equals L (L = log2(DENOISE_TIMESTEPS) = 7); in the output of
\* create_targets_naive dt_base equals L at every index.
C6_DtBaseSegments ==
    LET N == current_batch_size
        B == N \div BOOTSTRAP_EVERY
        L == Log2(DENOISE_TIMESTEPS)
    IN  pc = "returned" =>
            /\ L = 7
            /\ Len(dt_base) = N
            /\ (fn = "create_targets" /\ N >= BOOTSTRAP_EVERY) =>
                  \A i \in 1..N :
                      IF i <= B THEN dt_base[i] \in 0..(L - 1) ELSE dt_base[i] = L
            /\ fn = "create_targets_naive" => \A i \in 1..N : dt_base[i] = L

\* a returned batch whose bootstrap segment uses the coarsest and finest exponent
C6_Witness ==
    /\ pc = "returned" /\ fn = "create_targets" /\ current_batch_size = 112
    /\ dt_base[1] = 6 /\ dt_base[14] = 0 /\ dt_base[15] = 7 /\ dt_base[112] = 7

\* C7: with B = N div BOOTSTRAP_EVERY, L = 7 and g = B div L, the bootstrap
\* dt_base is, for every B >= 0, dt_base[i] = L-1 - (i div g) for i < L*g and
\* dt_base[i] = 0 for L*g <= i < B; every entry is 0 when B < L.
C7_StepSizeSchedule ==
    LET B == current_batch_size \div BOOTSTRAP_EVERY
        g == B \div 7
    IN  (fn = "create_targets" /\ pc \in {"sample_t", "first_call", "second_call", "raised"}) =>
            /\ Len(dt_base) = B
            /\ \A i \in 0..(B - 1) :
                  dt_base[i + 1] = IF i < 7 * g THEN 6 - (i \div g) ELSE 0
            /\ B < 7 => \A i \in 1..B : dt_base[i] = 0

\* fifteen bootstrap samples: seven groups of two, then one zero-filled entry
C7_Witness ==
    /\ fn = "create_targets" /\ pc = "sample_t" /\ bootstrap_batch_size = 15
    /\ dt_base[1] = 6 /\ dt_base[2] = 6 /\ dt_base[3] = 5
    /\ dt_base[13] = 0 /\ dt_base[14] = 0 /\ dt_base[15] = 0

\* C8: every bootstrap sample has t = k / 2^dt_base for an integer k with
\* 0 <= k < 2^dt_base, drawn with upper bound 2^dt_base >= 1; so 0 <= t < 1,
\* t2 = t + dt_bootstrap < 1 and t + 2 * dt_bootstrap = t + dt <= 1.  Every
\* flow-matching sample has t = k / 128 with 0 <= k < 128.
\* (Times are in units of 1/DENOISE_TIMESTEPS, so 1 is DENOISE_TIMESTEPS.)
C8_TimestepRanges ==
    /\ \A i \in 1..Len(dt_sections) : dt_sections[i] >= 1
    /\ pc = "raised" => dt_sections = <<>>
    /\ (fn = "create_targets" /\ pc \in {"first_call", "second_call"}) =>
          /\ Len(t) = bootstrap_batch_size
          /\ \A i \in 1..Len(t) :
                /\ dt_sections[i] = Pow2(dt_base[i])
                /\ \E k \in 0..(dt_sections[i] - 1) :
                      t[i] * dt_sections[i] = k * DENOISE_TIMESTEPS
                /\ 0 <= t[i] /\ t[i] < DENOISE_TIMESTEPS
                /\ 2 * dt_bootstrap[i] * dt_sections[i] = DENOISE_TIMESTEPS
                /\ t[i] + dt_bootstrap[i] < DENOISE_TIMESTEPS
                /\ t[i] + 2 * dt_bootstrap[i] <= DENOISE_TIMESTEPS
    /\ Len(calls) = 2 =>
          \A i \in 1..Len(calls[2].t) :
              /\ calls[2].t[i] = calls[1].t[i] + dt_bootstrap[i]
              /\ calls[2].t[i] < DENOISE_TIMESTEPS
    /\ (pc = "merge" \/ (pc = "returned" /\ fn = "create_targets_naive")) =>
          \A i \in 1..Len(t) : t[i] \in 0..(DENOISE_TIMESTEPS - 1)
    /\ (pc = "returned" /\ fn = "create_targets") =>
          \A i \in 1..Len(t) : t[i] \in 0..(DENOISE_TIMESTEPS - 1)

\* a bootstrap sample on the last grid point of its exponent: t + dt = 1
C8_Witness ==
    /\ fn = "create_targets" /\ pc = "second_call"
    /\ \E i \in 1..Len(t) :
          /\ dt_base[i] >= 2 /\ t[i] > 0
          /\ t[i] + 2 * dt_bootstrap[i] = DENOISE_TIMESTEPS

\* C9: in the merge of create_targets the five entries at every output index i
\* describe one training example: for i < B the bootstrap example built from
\* input image i with its original, undropped label i; for i >= B the
\* flow-matching example built from input image i - B with dropped label
\* i - B.  So input images 0..B-1 each appear in two output examples and the
\* last B input images N-B..N-1 in none.  (Sequences are 1-based here.)
C9_MergeAlignment ==
    [][(pc = "merge" /\ pc' = "returned") =>
        LET N == current_batch_size
            B == N \div BOOTSTRAP_EVERY
        IN  /\ Len(x_t') = N /\ Len(v_t') = N /\ Len(t') = N
            /\ Len(dt_base') = N /\ Len(labels_dropped') = N
            /\ \A i \in 1..N :
                  IF i <= B
                  THEN /\ x_t'[i] = bst_xt[i] /\ x_t'[i].img = i - 1
                       /\ v_t'[i] = bst_v[i] /\ v_t'[i].img = i - 1
                       /\ t'[i] = bst_t[i]
                       /\ dt_base'[i] = bst_dt[i]
                       /\ labels_dropped'[i] = labels[i]
                  ELSE /\ x_t'[i] = x_t[i - B] /\ x_t'[i].img = i - B - 1
                       /\ v_t'[i] = v_t[i - B] /\ v_t'[i].img = i - B - 1
                       /\ t'[i] = t[i - B]
                       /\ dt_base'[i] = dt_base[i - B]
                       /\ labels_dropped'[i] = labels_dropped[i - B]
            /\ \A j \in 0..(B - 1) :
                  x_t'[j + 1].img = j /\ x_t'[B + j + 1].img = j
            /\ \A i \in 1..N : x_t'[i].img < N - B]_vars

\* a merged batch of 64: image 0 is example 1 (bootstrap, label kept) and
\* example 9 (flow matching, label dropped); no example uses image 56 or later
C9_Witness ==
    /\ pc = "returned" /\ fn = "create_targets" /\ current_batch_size = 64
    /\ class_dropout_prob = 100
    /\ x_t[1].img = 0 /\ x_t[9].img = 0 /\ x_t[64].img = 55
    /\ labels_dropped[1] = 0 /\ labels_dropped[9] = NUM_CLASSES
    /\ dt_base[1] = 6 /\ dt_base[9] = 7

\* C10: create_targets puts the model in eval mode before any invocation and
\* invokes it exactly twice, in order: at (x_t, t, dt_base + 1, bootstrap
\* labels), then at (clip(x_t + dt_bootstrap * v_b1, -4, 4), t + dt_bootstrap,
\* dt_base + 1, bootstrap labels) with the first call's result v_b1; the stored
\* bootstrap dt_base is the coarse exponent, the target clip((v_b1 + v_b2)/2,
\* -4, 4) lies in [-4, 4]; the mode is never switched back, so it is eval at
\* return whatever it was at entry.  create_targets_naive sets eval mode and
\* never invokes the model.
C10_ModelCallProtocol ==
    LET B == bootstrap_batch_size
        Out(c, i) == ModelOutput(model_kind, c.x[i].val, c.t[i], c.dt_base[i], c.labels[i])
    IN  /\ pc # "idle" => model_mode = "eval"
        /\ \A c \in 1..Len(calls) : calls[c].mode = "eval"
        /\ fn = "create_targets_naive" => calls = <<>>
        /\ pc \in {"idle", "schedule", "sample_t", "first_call", "raised"} => calls = <<>>
        /\ pc = "second_call" => Len(calls) = 1
        /\ (fn = "create_targets" /\ pc \in {"flow", "merge", "returned"}) => Len(calls) = 2
        /\ Len(calls) >= 1 =>
              /\ Len(calls[1].x) = B /\ Len(v_b1) = B
              /\ calls[1].labels = SubSeq(labels, 1, B)
              /\ \A i \in 1..B :
                    /\ calls[1].x[i].img = i - 1
                    /\ v_b1[i].val = Out(calls[1], i)
        /\ Len(calls) = 2 =>
              /\ calls[1].x = bst_xt /\ calls[1].t = bst_t
              /\ calls[2].labels = calls[1].labels
              /\ calls[2].dt_base = calls[1].dt_base
              /\ Len(calls[2].x) = B /\ Len(bst_v) = B /\ Len(bst_dt) = B
              /\ \A i \in 1..B :
                    LET stepped == bst_xt[i].val + dt_bootstrap[i] * EpsInv * v_b1[i].val
                        mean2 == v_b1[i].val + Out(calls[2], i)
                    IN  /\ bst_dt[i] \in 0..6
                        /\ calls[1].dt_base[i] = bst_dt[i] + 1
                        /\ 2 * dt_bootstrap[i] * Pow2(bst_dt[i]) = DENOISE_TIMESTEPS
                        /\ calls[2].t[i] = bst_t[i] + dt_bootstrap[i]
                        /\ calls[2].x[i].img = bst_xt[i].img
                        /\ calls[2].x[i].val \in (-4 * XScale)..(4 * XScale)
                        /\ stepped \in (-4 * XScale)..(4 * XScale) => calls[2].x[i].val = stepped
                        /\ stepped > 4 * XScale => calls[2].x[i].val = 4 * XScale
                        /\ stepped < -4 * XScale => calls[2].x[i].val = -4 * XScale
                        /\ bst_v[i].val \in (-4 * VScale)..(4 * VScale)
                        /\ -8 <= mean2 /\ mean2 <= 8 => bst_v[i].val * 2 = mean2 * VScale

\* both inferences made by a steep model: the half step and the averaged
\* target are both cut off at the clip bound
C10_Witness ==
    /\ pc = "returned" /\ fn = "create_targets" /\ model_mode = "eval"
    /\ Len(calls) = 2 /\ model_kind = "steep"
    /\ \E i \in 1..bootstrap_batch_size :
          /\ calls[2].x[i].val = 4 * XScale
          /\ calls[1].x[i].val + dt_bootstrap[i] * EpsInv * v_b1[i].val > 4 * XScale
          /\ bst_v[i].val = 4 * VScale

====
